---- MODULE Spec2Model ----
(***************************************************************************)
(* pg_pandas: the shared-memory mailbox between PostgreSQL backends        *)
(* (pg_pandas_fn, src/pg_pandas.c) and the background workers              *)
(* (pg_pandas_worker_main, src/pg_pandas_worker.c).                        *)
(*                                                                         *)
(* The shared region PandasSharedData holds one slot: the buffers data,    *)
(* operation and result, the flags ready and terminate, and one LWLock.    *)
(* A buffer is modelled by its non-zero prefix, a sequence of runs         *)
(* <<request id, number of bytes>>; the bytes after the prefix are zero.   *)
(* Payload bytes are text and hold no zero byte.                           *)
(***************************************************************************)
EXTENDS Integers, Sequences, FiniteSets, TLC

(* ---- bounds of the model ---- *)
NumProducers == 2
NumWorkers == 2
MaxReq == 2
MaxReqShutdown == 1

(* ---- program constants ---- *)
DataCap == 8192
OpCap == 2048
ResultCap == 65536
PycodeCap == 10000
\* lengths of the three literal pieces of the snprintf format around the two %s
FmtPrefix == 410
FmtMiddle == 20
FmtSuffix == 95
\* pg_pandas.parallel: boot value, minimum and maximum given to
\* DefineCustomIntVariable, and the largest value _PG_init lets pass
ParallelDefault == 1
ParallelGucMin == 1
ParallelGucMax == 1024
ParallelInitMax == 16

Producers == {<<"backend", i>> : i \in 1..NumProducers}
Workers == {<<"worker", i>> : i \in 1..NumWorkers}
Procs == Producers \cup Workers
NoProc == <<"none", 0>>

\* the argument lengths <<data_len, operation_len>> a caller may pass: short, the
\* longest that fits, at capacity and above it
Payloads == {<<3, 2>>, <<DataCap - 1, OpCap - 1>>, <<DataCap, 2>>,
             <<3, OpCap>>, <<DataCap + 1, 2>>, <<3, OpCap + 1>>}
\* lengths of the string the interpreter may hand back
ResultLens == {5, ResultCap}

VARIABLES
    data,        \* pandas_shared->data
    operation,   \* pandas_shared->operation
    result,      \* pandas_shared->result
    ready,       \* pandas_shared->ready
    terminate,   \* pandas_shared->terminate
    lockX,       \* pandas_shared->lock: the exclusive holder, or NoProc
    lockS,       \* pandas_shared->lock: the set of shared holders
    pc,          \* position of every backend and worker in its function
    args,        \* per backend: the arguments of the call in progress
    outcome,     \* per backend: how its last call ended
    got,         \* per backend: the result text its last call returned
    pycode,      \* per worker: the local buffer pycode
    sig,         \* per worker: progress of handle_shutdown
    nreq,        \* number of calls of pg_pandas_fn made so far (request ids)
    boot,        \* how the slot started: "zeroed" (memset) or "ready"
    lastExec,    \* how the last execution of a worker ended: "none" so far, "ok",
                 \* "truncated", or the call that failed
    pending,     \* a request was written to the slot and no worker took it yet
    startup      \* postmaster start: the setting and the progress of _PG_init,
                 \* and whether the region "pg_pandas_shared" is absent, created
                 \* (ShmemInitStruct returned it) or initialised (memset and
                 \* LWLockInitialize done)

vars == <<data, operation, result, ready, terminate, lockX, lockS, pc, args,
          outcome, got, pycode, sig, nreq, boot, lastExec, pending, startup>>

shared == <<data, operation, result, ready>>

(* ---- buffers ---- *)
\* A buffer is a sequence of runs <<tag, n>>, n > 0, covering its whole capacity.
\* In data and operation the tag is the id of the request that wrote the bytes,
\* 0 for zero bytes; in result the tag is the program that produced the text,
\* <<>> for zero bytes.
ZeroTag == 0
NoText == <<>>

RECURSIVE RunsLen(_)
RunsLen(runs) ==
    IF runs = <<>> THEN 0 ELSE Head(runs)[2] + RunsLen(Tail(runs))

\* the bytes of runs from offset n on
RECURSIVE Drop(_, _)
Drop(runs, n) ==
    IF n = 0 \/ runs = <<>> THEN runs
    ELSE IF Head(runs)[2] <= n THEN Drop(Tail(runs), n - Head(runs)[2])
    ELSE <<<<Head(runs)[1], Head(runs)[2] - n>>>> \o Tail(runs)

\* the first n bytes of runs
RECURSIVE Take(_, _)
Take(runs, n) ==
    IF n = 0 \/ runs = <<>> THEN <<>>
    ELSE IF Head(runs)[2] <= n
         THEN <<Head(runs)>> \o Take(Tail(runs), n - Head(runs)[2])
    ELSE <<<<Head(runs)[1], n>>>>

\* memcpy(buf, src, n): the first n bytes of buf become the bytes of request req,
\* the rest of buf is left as it was
memcpy(buf, req, n) ==
    IF n = 0 THEN buf ELSE <<<<req, n>>>> \o Drop(buf, n)

\* a C string read of a buffer (the %s of snprintf, CStringGetTextDatum): the
\* bytes before the first zero byte
RECURSIVE CString(_, _)
CString(buf, zero) ==
    IF buf = <<>> \/ Head(buf)[1] = zero THEN <<>>
    ELSE <<Head(buf)>> \o CString(Tail(buf), zero)

\* faulty variant: the copy bounded by sizeof(result) and no terminator written
strncpy_NoTerminator(cap, prog, len) ==
    IF len = 0 THEN <<<<NoText, cap>>>>
    ELSE IF len >= cap THEN <<<<prog, cap>>>>
    ELSE <<<<prog, len>>, <<NoText, cap - len>>>>

\* strncpy(result, result_str, sizeof(result) - 1); result[sizeof(result) - 1] = '\0':
\* at most cap - 1 bytes of the text, the rest of the buffer zero-filled
strncpy(cap, prog, len) ==
    IF len = 0 THEN <<<<NoText, cap>>>>
    ELSE IF len >= cap - 1 THEN <<<<prog, cap - 1>>, <<NoText, 1>>>>
    ELSE <<<<prog, len>>, <<NoText, cap - len>>>>

\* snprintf(pycode, sizeof(pycode), fmt, data, operation): the formatted text cut
\* to sizeof(pycode) - 1 bytes; d and o are the parts of data and operation that
\* made it into pycode, whole tells whether the text was not cut
snprintf(d, o) ==
    LET room == PycodeCap - 1
        droom == room - FmtPrefix
        dgot == Take(d, droom)
        oroom == IF RunsLen(d) + FmtMiddle >= droom THEN 0
                 ELSE droom - RunsLen(d) - FmtMiddle
        ogot == Take(o, oroom)
    IN [d |-> dgot, o |-> ogot,
        whole |-> FmtPrefix + RunsLen(d) + FmtMiddle + RunsLen(o) + FmtSuffix <= room]

NoPycode == [d |-> <<>>, o |-> <<>>, whole |-> FALSE]
NoArgs == [req |-> 0, dlen |-> 0, olen |-> 0]

(* ---- the LWLock ---- *)
\* faulty variant: an exclusive acquisition that does not wait for an exclusive holder
CanAcquireExclusive_IgnoresHolder == lockS = {}

\* LWLockAcquire(lock, LW_EXCLUSIVE) returns only when nobody holds the lock
CanAcquireExclusive == lockX = NoProc /\ lockS = {}
\* LWLockAcquire(lock, LW_SHARED) returns only when nobody holds it exclusively
\* faulty variant: a shared acquire that does not wait for the exclusive holder
CanAcquireShared_IgnoresWriter == TRUE

CanAcquireShared == lockX = NoProc

(* ---- initial state ---- *)
\* the postmaster after both libraries loaded with the default setting:
\* _PG_init of pg_pandas ran to its end, _PG_init of pg_pandas_worker registered
\* its worker
StartupDone ==
    [conf |-> ParallelDefault, preload |-> TRUE, parallel |-> ParallelDefault,
     at |-> "done", shm |-> <<"pq_init_shared_memory", "ShmemInitStruct">>,
     wat |-> "done", registered |-> 1, region |-> "initialised"]

\* _PG_init: memset(pandas_shared, 0, sizeof(PandasSharedData)) and
\* LWLockInitialize; no backend or worker has run yet
InitZeroed ==
    /\ data = <<<<ZeroTag, DataCap>>>>
    /\ operation = <<<<ZeroTag, OpCap>>>>
    /\ result = <<<<NoText, ResultCap>>>>
    /\ terminate = FALSE
    /\ lockX = NoProc
    /\ lockS = {}
    /\ pc = [q \in Procs |-> IF q \in Producers THEN "idle" ELSE "attach"]
    /\ args = [p \in Producers |-> NoArgs]
    /\ outcome = [p \in Producers |-> "none"]
    /\ got = [p \in Producers |-> <<>>]
    /\ pycode = [w \in Workers |-> NoPycode]
    /\ sig = [w \in Workers |-> "none"]
    /\ nreq = 0
    /\ lastExec = "none"
    /\ pending = FALSE

\* The zeroed region has ready = false, and the only assignments ready = true
\* (pg_pandas_worker.c:180, 207) follow a read of ready = true
\* (pg_pandas_worker.c:134): from the zeroed region the slot is never ready.
\* pg_pandas_fn (pg_pandas.c:114) and the worker loop presume a slot that is
\* ready, so the model also starts the slot in that state; boot records which.
Init ==
    /\ InitZeroed
    /\ startup = StartupDone
    /\ \/ ready = FALSE /\ boot = "zeroed"
       \/ ready = TRUE /\ boot = "ready"

(* ---- pg_pandas_fn (src/pg_pandas.c) ---- *)
\* a backend calls pandas(data, operation): SRF first call, up to LWLockAcquire
FnCall(p, dlen, olen) ==
    /\ pc[p] \in {"idle", "done"}
    /\ nreq < MaxReq
    /\ nreq' = nreq + 1
    /\ args' = [args EXCEPT ![p] = [req |-> nreq + 1, dlen |-> dlen, olen |-> olen]]
    /\ outcome' = [outcome EXCEPT ![p] = "running"]
    /\ got' = [got EXCEPT ![p] = <<>>]
    /\ pc' = [pc EXCEPT ![p] = "fn_lock"]
    /\ UNCHANGED <<data, operation, result, ready, terminate, lockX, lockS,
                   pycode, sig, boot, lastExec>>
    /\ UNCHANGED <<pending, startup>>

\* LWLockAcquire(&pandas_shared->lock, LW_EXCLUSIVE)
FnAcquire(p) ==
    /\ pc[p] = "fn_lock"
    /\ CanAcquireExclusive
    /\ lockX' = p
    /\ pc' = [pc EXCEPT ![p] = "fn_check"]
    /\ UNCHANGED <<data, operation, result, ready, terminate, lockS, args,
                   outcome, got, pycode, sig, nreq, boot, lastExec>>
    /\ UNCHANGED <<pending, startup>>

\* faulty variant: the size checks written with > in place of >=
SizeError_OffByOne(dlen, olen) ==
    IF dlen > DataCap THEN "data_too_large"
    ELSE IF olen > OpCap THEN "operation_too_large"
    ELSE "none"

\* faulty variant: the check of operation_len left out
SizeError_DataOnly(dlen, olen) ==
    IF dlen >= DataCap THEN "data_too_large" ELSE "none"

\* the size checks of pg_pandas_fn, in the order of the code: which error, if
\* any, the lengths raise once the slot was found ready
SizeError(dlen, olen) ==
    IF dlen >= DataCap THEN "data_too_large"
    ELSE IF olen >= OpCap THEN "operation_too_large"
    ELSE "none"

\* faulty variant: the test of ready left out
WorkerBusy_Never == FALSE

\* "Check if worker is ready": the slot is taken as free when ready is set
WorkerBusy == ~ready

\* under the lock: if (!ready) ERROR "pg_pandas worker is busy"; the size checks
\* with their errors; else the two memcpy and ready = false; on every path
\* LWLockRelease
FnSubmit(p) ==
    /\ pc[p] = "fn_check"
    /\ lockX' = NoProc
    /\ IF WorkerBusy
       THEN /\ outcome' = [outcome EXCEPT ![p] = "busy"]
            /\ pc' = [pc EXCEPT ![p] = "done"]
            /\ UNCHANGED <<data, operation, ready, pending>>
       ELSE IF SizeError(args[p].dlen, args[p].olen) # "none"
       THEN /\ outcome' = [outcome EXCEPT
                             ![p] = SizeError(args[p].dlen, args[p].olen)]
            /\ pc' = [pc EXCEPT ![p] = "done"]
            /\ UNCHANGED <<data, operation, ready, pending>>
       ELSE /\ data' = memcpy(data, args[p].req, args[p].dlen)
            /\ operation' = memcpy(operation, args[p].req, args[p].olen)
            /\ ready' = FALSE
            /\ pending' = TRUE
            /\ pc' = [pc EXCEPT ![p] = "fn_lock2"]
            /\ UNCHANGED outcome
    /\ UNCHANGED <<result, terminate, lockS, args, got, pycode, sig, nreq,
                   boot, lastExec>>
    /\ UNCHANGED startup

\* per-call part: LWLockAcquire(&pandas_shared->lock, LW_SHARED)
FnAcquireShared(p) ==
    /\ pc[p] = "fn_lock2"
    /\ CanAcquireShared
    /\ lockS' = lockS \cup {p}
    /\ pc' = [pc EXCEPT ![p] = "fn_read"]
    /\ UNCHANGED <<data, operation, result, ready, terminate, lockX, args,
                   outcome, got, pycode, sig, nreq, boot, lastExec>>
    /\ UNCHANGED <<pending, startup>>

\* faulty variant: the error "pg_pandas operation not completed" raised without
\* LWLockRelease
FnReadResult_KeepsLockOnError(p) ==
    /\ pc[p] = "fn_read"
    /\ pc' = [pc EXCEPT ![p] = "done"]
    /\ IF ~ready
       THEN /\ outcome' = [outcome EXCEPT ![p] = "not_completed"]
            /\ UNCHANGED <<got, lockS>>
       ELSE /\ outcome' = [outcome EXCEPT ![p] = "result"]
            /\ got' = [got EXCEPT ![p] = CString(result, NoText)]
            /\ lockS' = lockS \ {p}
    /\ UNCHANGED <<data, operation, result, ready, terminate, lockX, args,
                   pycode, sig, nreq, boot, lastExec>>
    /\ UNCHANGED <<pending, startup>>

\* if (!ready) { release; ERROR "pg_pandas operation not completed" }
\* else result = CStringGetTextDatum(pandas_shared->result); release; return it
FnReadResult(p) ==
    /\ pc[p] = "fn_read"
    /\ lockS' = lockS \ {p}
    /\ pc' = [pc EXCEPT ![p] = "done"]
    /\ IF ~ready
       THEN /\ outcome' = [outcome EXCEPT ![p] = "not_completed"]
            /\ UNCHANGED got
       ELSE /\ outcome' = [outcome EXCEPT ![p] = "result"]
            /\ got' = [got EXCEPT ![p] = CString(result, NoText)]
    /\ UNCHANGED <<data, operation, result, ready, terminate, lockX, args,
                   pycode, sig, nreq, boot, lastExec>>
    /\ UNCHANGED <<pending, startup>>

(* ---- pg_pandas_worker_main (src/pg_pandas_worker.c) ---- *)
\* the worker's own code runs unless handle_shutdown is running on its stack
Running(w) == sig[w] \in {"none", "done"}

\* ShmemInitStruct finds the region _PG_init made; pqsignal(SIGTERM, ...),
\* BackgroundWorkerUnblockSignals, initialize_secure_python
WAttach(w) ==
    /\ pc[w] = "attach"
    /\ pc' = [pc EXCEPT ![w] = "w_sleep"]
    /\ UNCHANGED <<data, operation, result, ready, terminate, lockX, lockS, args,
                   outcome, got, pycode, sig, nreq, boot, lastExec>>
    /\ UNCHANGED <<pending, startup>>

\* pg_usleep(10000); if (pandas_shared->terminate) break; ... Py_Finalize()
WSleep(w) ==
    /\ pc[w] = "w_sleep"
    /\ Running(w)
    /\ pc' = [pc EXCEPT ![w] = IF terminate THEN "finalized" ELSE "w_lockS"]
    /\ UNCHANGED <<data, operation, result, ready, terminate, lockX, lockS, args,
                   outcome, got, pycode, sig, nreq, boot, lastExec>>
    /\ UNCHANGED <<pending, startup>>

\* LWLockAcquire(&pandas_shared->lock, LW_SHARED)
WAcquireShared(w) ==
    /\ pc[w] = "w_lockS"
    /\ Running(w)
    /\ CanAcquireShared
    /\ lockS' = lockS \cup {w}
    /\ pc' = [pc EXCEPT ![w] = "w_peek"]
    /\ UNCHANGED <<data, operation, result, ready, terminate, lockX, args,
                   outcome, got, pycode, sig, nreq, boot, lastExec>>
    /\ UNCHANGED <<pending, startup>>

\* faulty variant: a second termination check placed after the read of ready,
\* before LWLockRelease
WPeek_ExitsHoldingLock(w) ==
    /\ pc[w] = "w_peek"
    /\ Running(w)
    /\ IF terminate
       THEN /\ pc' = [pc EXCEPT ![w] = "finalized"]
            /\ UNCHANGED lockS
       ELSE /\ lockS' = lockS \ {w}
            /\ pc' = [pc EXCEPT ![w] = IF ready THEN "w_lockX" ELSE "w_sleep"]
    /\ UNCHANGED <<data, operation, result, ready, terminate, lockX, args,
                   outcome, got, pycode, sig, nreq, boot, lastExec>>
    /\ UNCHANGED <<pending, startup>>

\* bool ready = pandas_shared->ready; LWLockRelease; if (!ready) continue;
WPeek(w) ==
    /\ pc[w] = "w_peek"
    /\ Running(w)
    /\ lockS' = lockS \ {w}
    /\ pc' = [pc EXCEPT ![w] = IF ready THEN "w_lockX" ELSE "w_sleep"]
    /\ UNCHANGED <<data, operation, result, ready, terminate, lockX, args,
                   outcome, got, pycode, sig, nreq, boot, lastExec>>
    /\ UNCHANGED <<pending, startup>>

\* LWLockAcquire(&pandas_shared->lock, LW_EXCLUSIVE); pandas_shared->ready = false;
\* snprintf(pycode, ..., data, operation)
WClaim(w) ==
    /\ pc[w] = "w_lockX"
    /\ Running(w)
    /\ CanAcquireExclusive
    /\ lockX' = w
    /\ ready' = FALSE
    /\ pending' = FALSE
    /\ pycode' = [pycode EXCEPT
                    ![w] = snprintf(CString(data, ZeroTag), CString(operation, ZeroTag))]
    /\ pc' = [pc EXCEPT ![w] = "w_exec"]
    /\ UNCHANGED <<data, operation, result, terminate, lockS, args,
                   outcome, got, sig, nreq, boot, lastExec>>
    /\ UNCHANGED startup

\* how an execution that produced a text of len bytes ends: strncpy stores the
\* text whole, or only its first sizeof(result) - 1 bytes
Stored(len) == IF len > ResultCap - 1 THEN "truncated" ELSE "ok"

\* faulty variant: the PyRun_String failure path releases the lock without ready = true
\* (as the popen failure path of the earlier draft did)
WExec_StaysBusyOnError(w) ==
    /\ pc[w] = "w_exec"
    /\ Running(w)
    /\ \/ /\ lastExec' = "PyRun_String"
          /\ UNCHANGED <<result, ready>>
       \/ /\ lastExec' \in {"PyObject_CallMethod", "PyUnicode_AsUTF8"}
          /\ ready' = TRUE
          /\ UNCHANGED result
       \/ \E len \in ResultLens :
            /\ result' = strncpy(ResultCap, <<pycode[w].d, pycode[w].o>>, len)
            /\ lastExec' = Stored(len)
            /\ ready' = TRUE
    /\ lockX' = NoProc
    /\ pycode' = [pycode EXCEPT ![w] = NoPycode]
    /\ pc' = [pc EXCEPT ![w] = "w_sleep"]
    /\ UNCHANGED <<data, operation, terminate, lockS, args,
                   outcome, got, sig, nreq, boot>>
    /\ UNCHANGED <<pending, startup>>

\* faulty variant: the PyRun_String failure path goes back to the sleep without
\* LWLockRelease
WExec_KeepsLockOnError(w) ==
    /\ pc[w] = "w_exec"
    /\ Running(w)
    /\ \/ /\ lastExec' = "PyRun_String"
          /\ UNCHANGED <<result, lockX>>
       \/ /\ lastExec' \in {"PyObject_CallMethod", "PyUnicode_AsUTF8"}
          /\ lockX' = NoProc
          /\ UNCHANGED result
       \/ \E len \in ResultLens :
            /\ result' = strncpy(ResultCap, <<pycode[w].d, pycode[w].o>>, len)
            /\ lastExec' = Stored(len)
            /\ lockX' = NoProc
    /\ ready' = TRUE
    /\ pycode' = [pycode EXCEPT ![w] = NoPycode]
    /\ pc' = [pc EXCEPT ![w] = "w_sleep"]
    /\ UNCHANGED <<data, operation, terminate, lockS, args,
                   outcome, got, sig, nreq, boot>>
    /\ UNCHANGED <<pending, startup>>

\* pResult = PyRun_String(pycode, ...). The interpreter fails (pResult == NULL),
\* or pValue = PyObject_CallMethod(pModule, "print", ...) is NULL, or
\* PyUnicode_AsUTF8(pValue) is NULL: result is left as it was. Else the strncpy
\* of the text into result. On every path ready = true and LWLockRelease.
WExec(w) ==
    /\ pc[w] = "w_exec"
    /\ Running(w)
    /\ \/ /\ lastExec' = "PyRun_String"
          /\ UNCHANGED result
       \/ /\ lastExec' = "PyObject_CallMethod"
          /\ UNCHANGED result
       \/ /\ lastExec' = "PyUnicode_AsUTF8"
          /\ UNCHANGED result
       \/ \E len \in ResultLens :
            /\ result' = strncpy(ResultCap, <<pycode[w].d, pycode[w].o>>, len)
            /\ lastExec' = Stored(len)
    /\ ready' = TRUE
    /\ lockX' = NoProc
    /\ pycode' = [pycode EXCEPT ![w] = NoPycode]
    /\ pc' = [pc EXCEPT ![w] = "w_sleep"]
    /\ UNCHANGED <<data, operation, terminate, lockS, args,
                   outcome, got, sig, nreq, boot>>
    /\ UNCHANGED <<pending, startup>>

(* ---- handle_shutdown (src/pg_pandas_worker.c) ---- *)
\* SIGTERM arrives once the handler is installed: handle_shutdown starts on the
\* worker's stack and reaches LWLockAcquire(&pandas_shared->lock, LW_EXCLUSIVE)
HandlerEnter(w) ==
    /\ sig[w] = "none"
    /\ pc[w] \notin {"attach", "finalized"}
    /\ sig' = [sig EXCEPT ![w] = "h_lock"]
    /\ UNCHANGED <<data, operation, result, ready, terminate, lockX, lockS, pc,
                   args, outcome, got, pycode, nreq, boot, lastExec>>
    /\ UNCHANGED <<pending, startup>>

\* the handler gets the lock, sets terminate = true, releases the lock, returns
HandlerRun(w) ==
    /\ sig[w] = "h_lock"
    /\ CanAcquireExclusive
    /\ terminate' = TRUE
    /\ sig' = [sig EXCEPT ![w] = "done"]
    /\ UNCHANGED <<data, operation, result, ready, lockX, lockS, pc,
                   args, outcome, got, pycode, nreq, boot, lastExec>>
    /\ UNCHANGED <<pending, startup>>

(* ---- postmaster start: the two _PG_init ---- *)
\* the values postgresql.conf may give pg_pandas.parallel: the range of the
\* setting and one value on each side of it
ConfValues == (ParallelGucMin - 1)..(ParallelGucMax + 1)

\* before the libraries are loaded: pg_pandas_parallel has its initialiser, the
\* region "pg_pandas_shared" does not exist, no worker is registered; the library
\* is loaded by shared_preload_libraries (preload) or later by a backend
InitStartup ==
    /\ \E c \in ConfValues, pre \in BOOLEAN :
         startup = [conf |-> c, preload |-> pre, parallel |-> ParallelDefault,
                    at |-> "define", shm |-> <<>>,
                    wat |-> "init", registered |-> 0, region |-> "absent"]
    /\ data = <<>>
    /\ operation = <<>>
    /\ result = <<>>
    /\ ready = FALSE
    /\ boot = "zeroed"
    /\ terminate = FALSE
    /\ lockX = NoProc
    /\ lockS = {}
    /\ pc = [q \in Procs |-> IF q \in Producers THEN "idle" ELSE "attach"]
    /\ args = [p \in Producers |-> NoArgs]
    /\ outcome = [p \in Producers |-> "none"]
    /\ got = [p \in Producers |-> <<>>]
    /\ pycode = [w \in Workers |-> NoPycode]
    /\ sig = [w \in Workers |-> "none"]
    /\ nreq = 0
    /\ lastExec = "none"
    /\ pending = FALSE

running == <<terminate, lockX, lockS, pc, args, outcome, got, pycode, sig, nreq,
             boot, lastExec, pending>>

\* DefineCustomIntVariable("pg_pandas.parallel", ..., 1, 1, 1024, PGC_POSTMASTER):
\* the configured value is assigned when it lies within the minimum and the
\* maximum, else the variable keeps its boot value
PGDefine ==
    /\ startup.at = "define"
    /\ startup' = [startup EXCEPT
                     !.parallel = IF startup.conf \in ParallelGucMin..ParallelGucMax
                                  THEN startup.conf ELSE ParallelDefault,
                     !.at = "alloc"]
    /\ UNCHANGED <<shared, running>>

\* "Allocate shared memory": pq_init_shared_memory()
PGAlloc ==
    /\ startup.at = "alloc"
    /\ startup' = [startup EXCEPT
                     !.shm = Append(startup.shm, "pq_init_shared_memory"),
                     !.at = "preload"]
    /\ UNCHANGED <<shared, running>>

\* if (!process_shared_preload_libraries_in_progress) elog(ERROR, ...)
PGPreloadCheck ==
    /\ startup.at = "preload"
    /\ startup' = [startup EXCEPT
                     !.at = IF startup.preload THEN "range" ELSE "error_preload"]
    /\ UNCHANGED <<shared, running>>

\* if (pg_pandas_parallel < 1 || pg_pandas_parallel > 16)
OutOfRange(n) == n < 1 \/ n > ParallelInitMax

\* ... elog(ERROR, "pg_pandas.parallel must be between 1 and 16")
PGRangeCheck ==
    /\ startup.at = "range"
    /\ startup' = [startup EXCEPT
                     !.at = IF OutOfRange(startup.parallel)
                            THEN "error_range" ELSE "shmem"]
    /\ UNCHANGED <<shared, running>>

\* ShmemInitStruct("pg_pandas_shared", ...); the region is new (!found):
\* memset(pandas_shared, 0, ...) and LWLockInitialize
PGShmemInit ==
    /\ startup.at = "shmem"
    /\ startup' = [startup EXCEPT
                     !.shm = Append(startup.shm, "ShmemInitStruct"),
                     !.region = "initialised",
                     !.at = "done"]
    /\ data' = <<<<ZeroTag, DataCap>>>>
    /\ operation' = <<<<ZeroTag, OpCap>>>>
    /\ result' = <<<<NoText, ResultCap>>>>
    /\ ready' = FALSE
    /\ UNCHANGED running

\* _PG_init of pg_pandas_worker: one BackgroundWorker is filled in and
\* RegisterBackgroundWorker is called once
WorkerLibInit ==
    /\ startup.wat = "init"
    /\ startup' = [startup EXCEPT
                     !.registered = startup.registered + 1,
                     !.wat = "done"]
    /\ UNCHANGED <<shared, running>>

NextStartup ==
    \/ PGDefine
    \/ PGAlloc
    \/ PGPreloadCheck
    \/ PGRangeCheck
    \/ PGShmemInit
    \/ WorkerLibInit

\* the postmaster loads the two libraries, for every value of the setting
SpecStartup == InitStartup /\ [][NextStartup]_vars

(* ---- the workers attach (src/pg_pandas_worker.c:101-110) ---- *)
\* the postmaster loaded pg_pandas_worker only: _PG_init of pg_pandas never ran,
\* the region does not exist when the workers start
StartupWorkerOnly ==
    [conf |-> ParallelDefault, preload |-> FALSE, parallel |-> ParallelDefault,
     at |-> "define", shm |-> <<>>,
     wat |-> "done", registered |-> 1, region |-> "absent"]

\* the state in which the workers start: the region zeroed by _PG_init of
\* pg_pandas in the postmaster, or no region yet
InitAttach ==
    \/ InitZeroed /\ startup = StartupDone /\ ready = FALSE /\ boot = "zeroed"
    \/ /\ startup = StartupWorkerOnly
       /\ data = <<>>
       /\ operation = <<>>
       /\ result = <<>>
       /\ ready = FALSE
       /\ boot = "zeroed"
       /\ terminate = FALSE
       /\ lockX = NoProc
       /\ lockS = {}
       /\ pc = [q \in Procs |-> IF q \in Producers THEN "idle" ELSE "attach"]
       /\ args = [p \in Producers |-> NoArgs]
       /\ outcome = [p \in Producers |-> "none"]
       /\ got = [p \in Producers |-> <<>>]
       /\ pycode = [w \in Workers |-> NoPycode]
       /\ sig = [w \in Workers |-> "none"]
       /\ nreq = 0
       /\ lastExec = "none"
       /\ pending = FALSE

\* ShmemInitStruct("pg_pandas_shared", ..., &found) with found = false: the
\* region is created, in fresh shared memory (zero pages), and returned; the
\* memset and LWLockInitialize are still to come
WCreate(w) ==
    /\ pc[w] = "attach"
    /\ startup.region = "absent"
    /\ startup' = [startup EXCEPT !.region = "created"]
    /\ data' = <<<<ZeroTag, DataCap>>>>
    /\ operation' = <<<<ZeroTag, OpCap>>>>
    /\ result' = <<<<NoText, ResultCap>>>>
    /\ pc' = [pc EXCEPT ![w] = "attach_init"]
    /\ UNCHANGED <<ready, terminate, lockX, lockS, args, outcome, got, pycode,
                   sig, nreq, boot, lastExec, pending>>

\* if (!found) { memset(pandas_shared, 0, ...); LWLockInitialize(&lock, ...);
\* terminate = false; }: the lock is set to free whoever holds it
WZero(w) ==
    /\ pc[w] = "attach_init"
    /\ startup' = [startup EXCEPT !.region = "initialised"]
    /\ data' = <<<<ZeroTag, DataCap>>>>
    /\ operation' = <<<<ZeroTag, OpCap>>>>
    /\ result' = <<<<NoText, ResultCap>>>>
    /\ ready' = FALSE
    /\ terminate' = FALSE
    /\ lockX' = NoProc
    /\ lockS' = {}
    /\ pc' = [pc EXCEPT ![w] = "w_sleep"]
    /\ UNCHANGED <<args, outcome, got, pycode, sig, nreq, boot, lastExec, pending>>

\* the workers start and poll; pg_pandas_fn can be called where _PG_init of
\* pg_pandas succeeded. ready is false in the region as initialised, so no
\* call gets past the test of ready and no worker past its own
NextAttach ==
    \/ \E p \in Producers :
         \/ \E a \in Payloads : startup.at = "done" /\ FnCall(p, a[1], a[2])
         \/ FnAcquire(p)
         \/ FnSubmit(p)
    \/ \E w \in Workers :
         \/ startup.region # "absent" /\ WAttach(w)
         \/ WCreate(w)
         \/ WZero(w)
         \/ WSleep(w)
         \/ WAcquireShared(w)
         \/ WPeek(w)

SpecAttach == InitAttach /\ [][NextAttach]_vars

(* ---- the system ---- *)
Next ==
    \/ \E p \in Producers :
         \/ \E a \in Payloads : FnCall(p, a[1], a[2])
         \/ FnAcquire(p)
         \/ FnSubmit(p)
         \/ FnAcquireShared(p)
         \/ FnReadResult(p)
    \/ \E w \in Workers :
         \/ WAttach(w)
         \/ WSleep(w)
         \/ WAcquireShared(w)
         \/ WPeek(w)
         \/ WClaim(w)
         \/ WExec(w)

\* normal operation: no SIGTERM is delivered
Spec == Init /\ [][Next]_vars

\* operation with shutdown: SIGTERM may reach every worker once, while at most
\* MaxReqShutdown calls are made
NextShutdown ==
    \/ \E p \in Producers :
         \/ \E a \in Payloads : nreq < MaxReqShutdown /\ FnCall(p, a[1], a[2])
         \/ FnAcquire(p)
         \/ FnSubmit(p)
         \/ FnAcquireShared(p)
         \/ FnReadResult(p)
    \/ \E w \in Workers :
         \/ WAttach(w)
         \/ WSleep(w)
         \/ WAcquireShared(w)
         \/ WPeek(w)
         \/ WClaim(w)
         \/ WExec(w)
         \/ HandlerEnter(w)
         \/ HandlerRun(w)

SpecShutdown == Init /\ [][NextShutdown]_vars

(* ---- definitions shared by the properties ---- *)
Failures == {"PyRun_String", "PyObject_CallMethod", "PyUnicode_AsUTF8"}
SizeErrors == {"data_too_large", "operation_too_large"}
\* backend p is in a call, or has ended one, whose arguments are args[p]
Called(p) == args[p].req > 0
Fits(p) == args[p].dlen <= DataCap /\ args[p].olen <= OpCap
Oversized(p) == args[p].dlen > DataCap \/ args[p].olen > OpCap
\* the program a worker builds from exactly the bytes of p's request
OwnProgram(p) ==
    << <<<<args[p].req, args[p].dlen>>>>, <<<<args[p].req, args[p].olen>>>> >>
WorkersStarted == {w \in Workers : pc[w] # "attach"}

(* ---- C1 ---- *)
\* C1 (as claimed): from the freshly zeroed region, with one running worker and a
\* single call, a call whose arguments fit the buffers ends with a result or an
\* execution error.
C1_FreshSubmitEndsWithResult ==
    \A p \in Producers :
        ( /\ boot = "zeroed"
          /\ Cardinality(WorkersStarted) = 1
          /\ nreq = 1
          /\ Called(p)
          /\ args[p].dlen < DataCap /\ args[p].olen < OpCap
          /\ pc[p] = "done" )
        => outcome[p] \in {"result", "execution_error"}

(* ---- C2 ---- *)
\* the data bytes of the program that produced the text returned to p
GotData(p) == IF got[p] = <<>> THEN <<>> ELSE got[p][1][1][1]

C4_OversizedMutatesNothing ==
    [][ \A p \in Producers :
          (Oversized(p) /\ pc[p] \in {"fn_lock", "fn_check"} /\ pc'[p] # pc[p]) =>
            /\ shared' = shared
            /\ pc'[p] \in {"fn_check", "done"}
            /\ pc'[p] = "done" => outcome'[p] \in SizeErrors \cup {"busy"}
      ]_vars

\* an oversized call found the slot ready and was refused for its size, the
\* slot still ready and empty
C4_Witness ==
    \E p \in Producers :
        /\ Oversized(p) /\ pc[p] = "done" /\ outcome[p] \in SizeErrors
        /\ ready /\ data = <<<<ZeroTag, DataCap>>>>

(* ---- C5 ---- *)
\* C5 (as claimed): an oversized call ends with the size error whatever the state
\* of the slot; stated for the zeroed region, where the slot is not ready.
C5_OversizedAlwaysSizeError ==
    \A p \in Producers :
        (boot = "zeroed" /\ Oversized(p) /\ pc[p] = "done")
        => outcome[p] \in SizeErrors

(* ---- C6 ---- *)
\* C6: a call that finds the slot occupied (ready not set) ends with "worker is
\* busy" and leaves data, operation, result and ready as they were.
C6_SaturatedRejected ==
    [][ \A p \in Producers :
          (pc[p] = "fn_check" /\ ~ready /\ pc'[p] # "fn_check") =>
            /\ pc'[p] = "done" /\ outcome'[p] = "busy"
            /\ shared' = shared
      ]_vars

\* no worker has started; q's request is in the slot, and p's later call was
\* refused as busy
C6_Witness ==
    \E p, q \in Producers :
        /\ WorkersStarted = {}
        /\ pc[q] = "fn_lock2" /\ ~ready
        /\ CString(data, ZeroTag) = <<<<args[q].req, args[q].dlen>>>>
        /\ args[p].req > args[q].req
        /\ outcome[p] = "busy"

(* ---- C7 ---- *)
\* C7: at most one worker is between claiming the slot and writing ready = true.
C7_OneWorkerInSlot ==
    Cardinality({w \in Workers : pc[w] = "w_exec"}) <= 1

\* one worker has the slot while another, which also saw ready set, is waiting
\* for the exclusive lock
C7_Witness ==
    \E v, w \in Workers : pc[v] = "w_exec" /\ pc[w] = "w_lockX"

C9_FailureReleasesSlot ==
    [][ \A w \in Workers :
          (pc[w] = "w_exec" /\ pc'[w] # "w_exec" /\ lastExec' \in Failures) =>
            /\ ready'
            /\ lockX' = NoProc /\ lockS' = {}
      ]_vars

\* after a failed execution the slot took a request again
C9_Witness ==
    \E p \in Producers :
        /\ lastExec \in Failures
        /\ \A w \in Workers : pc[w] # "w_exec"
        /\ pc[p] = "fn_lock2" /\ ~ready
        /\ Head(data) = <<args[p].req, args[p].dlen>>

C13_ShutdownCompletes ==
    (\E w \in Workers : sig[w] # "none") =>
        ((\A w \in Workers : pc[w] = "finalized") \/ ENABLED NextShutdown)

(* ---- C14 ---- *)
StartupOver == startup.at \in {"done", "error_preload", "error_range"}

\* C14 (as claimed): loaded by shared_preload_libraries with a value from 1 to
\* 1024, _PG_init runs to its end.
C14_EveryGucValueStarts ==
    ( /\ StartupOver
      /\ startup.preload
      /\ startup.conf \in ParallelGucMin..ParallelGucMax )
    => startup.at = "done"

(* ---- C15 ---- *)
\* C15 (as claimed): after a successful start the number of registered workers
\* is the value of pg_pandas.parallel.
C15_RegisteredEqualsParallel ==
    (startup.at = "done" /\ startup.wat = "done")
    => startup.registered = startup.parallel

(* ---- C16 ---- *)
\* C16 (as claimed): when _PG_init rejects the value of pg_pandas.parallel no
\* shared-memory step was made before.
C16_RangeCheckBeforeShmem ==
    startup.at = "error_range" => startup.shm = <<>>

Claims(w) == pc[w] = "w_lockX" /\ pc'[w] = "w_exec"

C21_NoLockWhileSleeping ==
    \A w \in Workers : pc[w] = "w_sleep" => (lockX # w /\ w \notin lockS)

\* all workers are back in the sleep after an execution that failed
C21_Witness ==
    /\ lastExec \in Failures
    /\ \A w \in Workers : pc[w] = "w_sleep"

(* ---- C22 ---- *)
\* the positions a worker reaches only by reading or locking the region
UsedRegion(w) == pc[w] \in {"w_lockS", "w_peek", "w_lockX", "w_exec", "finalized"}

C23_AccessUnderLock ==
    [][ /\ \A p \in Producers :
             /\ (pc[p] = "fn_check" /\ pc'[p] # "fn_check")
                => (lockX = p /\ lockS = {})
             /\ (pc[p] = "fn_read" /\ pc'[p] # "fn_read")
                => (p \in lockS /\ lockX = NoProc)
        /\ \A w \in Workers :
             /\ (pc[w] = "w_peek" /\ pc'[w] # "w_peek")
                => (w \in lockS /\ lockX = NoProc)
             /\ (pc[w] = "w_lockX" /\ pc'[w] = "w_exec")
                => (lockX' = w /\ lockS' = {})
             /\ (pc[w] = "w_exec" /\ pc'[w] # "w_exec")
                => (lockX = w /\ lockS = {})
        /\ (shared' # shared) =>
             \E q \in Procs : pc'[q] # pc[q] /\ (lockX = q \/ lockX' = q)
      ]_vars

\* a backend reads the slot in shared mode while a worker that saw ready set
\* waits for the exclusive lock
C23_Witness ==
    \E p \in Producers, w \in Workers :
        /\ pc[p] = "fn_read" /\ p \in lockS
        /\ pc[w] = "w_lockX"

C25_NoSelfAcquire ==
    \A w \in Workers : sig[w] = "h_lock" => (lockX # w /\ w \notin lockS)

(* ---- C26 ---- *)
\* C26: a backend that is outside pg_pandas_fn, or between its two locked
\* parts, holds the lock in no mode.
C26_ProducerLeavesUnlocked ==
    \A p \in Producers :
        pc[p] \in {"idle", "done", "fn_lock", "fn_lock2"}
        => (lockX # p /\ p \notin lockS)

\* one call has ended with a size error and another with "operation not
\* completed"
C26_Witness ==
    \E p, q \in Producers :
        /\ pc[p] = "done" /\ outcome[p] = "not_completed"
        /\ pc[q] = "done" /\ outcome[q] \in SizeErrors

(* ---- C27 ---- *)
\* C27: a worker leaves its loop only from the sleep at the top of an
\* iteration, with terminate set, holding the lock in no mode and with no
\* program of a claimed request left in pycode.
C27_ExitsOnlyAtCheck ==
    [][ \A w \in Workers :
          (pc[w] # "finalized" /\ pc'[w] = "finalized") =>
            /\ pc[w] = "w_sleep" /\ terminate
            /\ lockX # w /\ w \notin lockS
            /\ pycode[w] = NoPycode
      ]_vars

\* a worker has left its loop after an execution had taken place
C27_Witness ==
    \E w \in Workers : pc[w] = "finalized" /\ lastExec # "none"

(* ---- C28 ---- *)
\* buf covers cap bytes and its last byte is a zero byte
EndsWithZero(buf, cap, zero) ==
    /\ RunsLen(buf) = cap
    /\ buf[Len(buf)][1] = zero

\* C28: data, operation and result end with a zero byte, so a string read of
\* each of them stops inside the buffer.
C28_BuffersTerminated ==
    /\ EndsWithZero(data, DataCap, ZeroTag)
    /\ EndsWithZero(operation, OpCap, ZeroTag)
    /\ EndsWithZero(result, ResultCap, NoText)
    /\ RunsLen(CString(data, ZeroTag)) < DataCap
    /\ RunsLen(CString(operation, ZeroTag)) < OpCap
    /\ RunsLen(CString(result, NoText)) < ResultCap

\* data holds a request of sizeof(data) - 1 bytes and result a text of
\* sizeof(result) - 1 bytes
C28_Witness ==
    /\ Head(data)[1] # ZeroTag /\ Head(data)[2] = DataCap - 1
    /\ Head(result)[1] # NoText /\ Head(result)[2] = ResultCap - 1

====
